---- MODULE Spec2Model ----
(***************************************************************************)
(* Flexer: a header-only flexible layout engine (src/flexer.hpp).          *)
(* The model keeps the three private members of flexer::Flexer and one     *)
(* action per public member function.  performLayout is one atomic action: *)
(* the recursion of performContainerLayout is computed by the recursive    *)
(* operators below, statement by statement.                                *)
(***************************************************************************)
EXTENDS Integers, Sequences, FiniteSets, TLC

(* ------------------------------------------------------------------ *)
(* Bounds of the model                                                 *)
(* ------------------------------------------------------------------ *)

\* createElement is disabled once this many elements exist.
MaxElems == 4

(* ------------------------------------------------------------------ *)
(* int / unsigned int arithmetic                                       *)
(* ------------------------------------------------------------------ *)

\* int and unsigned int are 32 bits wide.  Where the code mixes the two (int -
\* unsigned, int += unsigned, int * unsigned) the operation is done modulo 2^32
\* and the result converted back to int, which yields the mathematical result
\* whenever that result lies within int.  Every value of the model does (the
\* inputs below are small), so the operators compute on the integers directly.

\* A division that rounds toward minus infinity.
IntDiv_floor(a, b) == a \div b

\* int / int in C++: the quotient is truncated toward zero (the divisor is >= 1 here).
IntDiv(a, b) == IF a >= 0 THEN a \div b ELSE -((-a) \div b)

(* ------------------------------------------------------------------ *)
(* Rect and Element                                                    *)
(* ------------------------------------------------------------------ *)

\* Default member initialiser of Rect::width and Rect::height.
DefaultSize == 100

Rect(x, y, w, h) == [x |-> x, y |-> y, width |-> w, height |-> h]

\* Rect() = default
DefaultRect == Rect(0, 0, DefaultSize, DefaultSize)

\* The value of a freshly made Element (std::make_unique<Element>()).
\* proportion, border, spacing and axis are overwritten by createElement.
DefaultElement ==
    [parent |-> 0, bounds |-> DefaultRect, proportion |-> 1, border |-> 3,
     spacing |-> 3, children |-> << >>, axis |-> "Horizontal"]

(* ------------------------------------------------------------------ *)
(* State                                                               *)
(* ------------------------------------------------------------------ *)

VARIABLES
    m_globalID,            \* next identity to hand out
    m_elements,            \* std::map<EID, unique_ptr<Element>>: id -> Element
    m_elementLayoutRects,  \* std::map<EID, Rect>: id -> Rect
    lastOp,                \* the member function that returned last
    ret,                   \* its return value (0 when it returns void)
    writes                 \* ids assigned in m_elementLayoutRects by the last call, in order

vars == <<m_globalID, m_elements, m_elementLayoutRects, lastOp, ret, writes>>

\* const std::map<EID, Rect>& rects() const
rects == m_elementLayoutRects

\* std::map::operator[] : the map after m[id] has been evaluated; a missing key
\* is inserted with a value-initialised Rect.
Subscript(m, id) ==
    IF id \in DOMAIN m THEN m ELSE [k \in DOMAIN m \cup {id} |-> IF k = id THEN DefaultRect ELSE m[k]]

\* m[id] = r
Assign(m, id, r) == [k \in DOMAIN m \cup {id} |-> IF k = id THEN r ELSE m[k]]

Init ==
    /\ m_globalID = 1
    /\ m_elements = << >>
    /\ m_elementLayoutRects = << >>
    /\ lastOp = "Flexer"
    /\ ret = 0
    /\ writes = << >>

(* ------------------------------------------------------------------ *)
(* createElement / addParent                                           *)
(* ------------------------------------------------------------------ *)

\* addParent with the push_back done twice.
addParent_twice(elems, id, parent) ==
    IF parent # 0
    THEN [elems EXCEPT ![id].parent = parent,
                       ![parent].children = Append(Append(@, id), id)]
    ELSE elems

\* void Flexer::addParent(EID id, EID parent), as a function of the registry.
addParent(elems, id, parent) ==
    IF parent # 0
    THEN [elems EXCEPT ![id].parent = parent,
                       ![parent].children = Append(@, id)]
    ELSE elems

\* EID Flexer::createElement(Element el)
createElement(el) ==
    /\ m_globalID <= MaxElems
    /\ LET id == m_globalID
           fresh == [DefaultElement EXCEPT !.bounds = el.bounds,
                                           !.axis = el.axis,
                                           !.proportion = el.proportion,
                                           !.border = el.border,
                                           !.spacing = el.spacing]
           stored == [k \in DOMAIN m_elements \cup {id} |->
                          IF k = id THEN fresh ELSE m_elements[k]]
       IN /\ m_globalID' = id + 1
          /\ m_elements' = addParent(stored, id, el.parent)
          /\ ret' = id
    /\ lastOp' = "createElement"
    /\ writes' = << >>
    /\ UNCHANGED m_elementLayoutRects

(* ------------------------------------------------------------------ *)
(* getElementRect                                                      *)
(* ------------------------------------------------------------------ *)

\* Rect Flexer::getElementRect(EID id)
getElementRect(id) ==
    /\ m_elementLayoutRects' = Subscript(m_elementLayoutRects, id)
    /\ ret' = m_elementLayoutRects'[id]
    /\ lastOp' = "getElementRect"
    /\ writes' = IF id \in DOMAIN m_elementLayoutRects THEN << >> ELSE <<id>>
    /\ UNCHANGED <<m_globalID, m_elements>>

(* ------------------------------------------------------------------ *)
(* performLayout / performContainerLayout                              *)
(* ------------------------------------------------------------------ *)

\* Element* Flexer::getElement(EID id), for an id that is registered.
getElement(id) == m_elements[id]

Last(s) == s[Len(s)]

\* The main-axis size of a rectangle: width for Horizontal, height for Vertical.
mainSize(axis, r) == IF axis = "Horizontal" THEN r.width ELSE r.height

\* The loop "totalProportions += getElement(e)->proportion" over kids, starting
\* from acc.
RECURSIVE proportionSum(_, _)
proportionSum(kids, acc) ==
    IF kids = << >> THEN acc
    ELSE proportionSum(Tail(kids), acc + getElement(Head(kids)).proportion)

\* The children counted instead of their proportions summed.
totalProportions_count(el) == IF el.children = << >> THEN 1 ELSE Len(el.children)

\* totalProportions after "totalProportions <= 0 ? 1 : totalProportions".
totalProportions(el) ==
    LET s == proportionSum(el.children, 0) IN IF s <= 0 THEN 1 ELSE s

\* The first loop over the children: compSize -= size for every child of
\* proportion 0, compSize being parentBounds' width or height.
RECURSIVE reserveLoop(_, _, _)
reserveLoop(axis, kids, pb) ==
    IF kids = << >> THEN pb
    ELSE LET c == getElement(Head(kids))
             size == mainSize(axis, c.bounds)
             pb1 == IF c.proportion = 0
                    THEN IF axis = "Horizontal"
                         THEN [pb EXCEPT !.width = @ - size]
                         ELSE [pb EXCEPT !.height = @ - size]
                    ELSE pb
         IN reserveLoop(axis, Tail(kids), pb1)

\* The first loop left out: nothing is reserved for the fixed children.
reserveFixed_none(el, pb) == pb

reserveFixed(el, pb) == reserveLoop(el.axis, el.children, pb)

\* const int size = (axis == Horizontal ? parentBounds.width : parentBounds.height)
\*                  - el->border * 2;
availableSize(el, pb) == mainSize(el.axis, pb) - el.border * 2

\* ret started from the rectangle computed by the previous pass.
startRect_prev(m, e) == IF e \in DOMAIN m THEN m[e] ELSE getElement(e).bounds

\* Rect ret = c->bounds;  with c = getElement(e).  m is the rectangle map at
\* that point; the code does not read it here.
startRect(m, e) == getElement(e).bounds

\* ret.x += parentBounds.x + el->border;  (likewise ret.y)
offsetBy(v, cursor, border) == v + (cursor + border)

\* sizeSlice and the assignment to the main-axis size:
\*   sizeSlice = (size - (c->proportion <= 0 ? stored : 0)) / totalProportions;
\*   if (c->proportion >= 1) main = sizeSlice * c->proportion;
childMainSize(size, total, c, stored) ==
    LET sizeSlice == IntDiv(size - (IF c.proportion <= 0 THEN stored ELSE 0), total)
    IN IF c.proportion >= 1 THEN sizeSlice * c.proportion ELSE stored

\* The border taken off one side only.
crossSize_oneSide(cross, border) == cross - border

\* ret.height = parentBounds.height - el->border * 2;  (ret.width for Vertical)
crossSize(cross, border) == cross - border * 2

\* The cursor moved the wrong way.
advance_back(axis, pb, w) ==
    IF axis = "Horizontal"
    THEN [pb EXCEPT !.x = @ - w, !.width = @ - w]
    ELSE [pb EXCEPT !.y = @ - w, !.height = @ - w]

\* parentBounds.x += ret.width; parentBounds.width -= ret.width;  (y, height for Vertical)
advance(axis, pb, w) ==
    IF axis = "Horizontal"
    THEN [pb EXCEPT !.x = @ + w, !.width = @ - w]
    ELSE [pb EXCEPT !.y = @ + w, !.height = @ - w]

\* The spacing deducted from the last child too.
deductSpacing_all(el, e, w) == w - el.spacing

\* if (e != el->children.back()) ret.width -= el->spacing;  (ret.height for Vertical)
deductSpacing(el, e, w) ==
    IF e # Last(el.children) THEN w - el.spacing ELSE w

\* The body of the second loop up to "m_elementLayoutRects[e] = ret":
\* the finished rectangle of child e, with the cursor parentBounds = pb.
childRet(m, el, e, pb, size, total) ==
    LET c == getElement(e)
        r0 == startRect(m, e)
        x0 == offsetBy(r0.x, pb.x, el.border)
        y0 == offsetBy(r0.y, pb.y, el.border)
    IN IF el.axis = "Horizontal"
       THEN LET w == childMainSize(size, total, c, r0.width)
            IN [full |-> w,
                rect |-> Rect(x0, y0, deductSpacing(el, e, w), crossSize(pb.height, el.border))]
       ELSE LET h == childMainSize(size, total, c, r0.height)
            IN [full |-> h,
                rect |-> Rect(x0, y0, crossSize(pb.width, el.border), deductSpacing(el, e, h))]

\* void Flexer::performContainerLayout(EID id).  st = [rects, log]: the rectangle
\* map and the ids assigned in it so far.  layoutChildren is the second loop,
\* from child Head(kids) on, with the cursor parentBounds = pb.
RECURSIVE performContainerLayout(_, _)
RECURSIVE layoutChildren(_, _, _, _, _, _)

layoutChildren(el, kids, pb, size, total, st) ==
    IF kids = << >> THEN st
    ELSE LET e == Head(kids)
             r == childRet(st.rects, el, e, pb, size, total)
             st1 == [rects |-> Assign(st.rects, e, r.rect), log |-> Append(st.log, e)]
             st2 == performContainerLayout(e, st1)
         IN layoutChildren(el, Tail(kids), advance(el.axis, pb, r.full), size, total, st2)

performContainerLayout(id, st) ==
    IF id \notin DOMAIN m_elements THEN st
    ELSE LET el == getElement(id)
             st1 == IF el.parent = 0
                    THEN [rects |-> Assign(st.rects, id, el.bounds), log |-> Append(st.log, id)]
                    ELSE st
         IN IF el.children = << >> THEN st1
            ELSE LET m1 == Subscript(st1.rects, id)
                     pb == reserveFixed(el, m1[id])
                 IN layoutChildren(el, el.children, pb, availableSize(el, pb),
                                   totalProportions(el), [st1 EXCEPT !.rects = m1])

\* void performLayout() { performContainerLayout(1); }
performLayout ==
    /\ LET r == performContainerLayout(1, [rects |-> m_elementLayoutRects, log |-> << >>])
       IN /\ m_elementLayoutRects' = r.rects
          /\ writes' = r.log
    /\ lastOp' = "performLayout"
    /\ ret' = 0
    /\ UNCHANGED <<m_globalID, m_elements>>

(* ------------------------------------------------------------------ *)
(* Inputs and specifications                                           *)
(* ------------------------------------------------------------------ *)

\* The parents a caller may name: the sentinel or an element that exists.
ValidParents == {0} \cup DOMAIN m_elements

\* Element literals passed to createElement (parent is set separately).
El(b, p, bo, sp, ax) ==
    [DefaultElement EXCEPT !.bounds = b, !.proportion = p, !.border = bo,
                           !.spacing = sp, !.axis = ax]

\* A small set of elements for the checks of the registry and of the map.
ApiInputs ==
    { El(Rect(10, 10, 60, 40), 1, 2, 1, "Vertical"),
      El(Rect(0, 0, 20, 0), 0, 3, 3, "Horizontal") }

\* Ids read with getElementRect: every registered id and the first unused one.
RectIds == 1 .. m_globalID

Next ==
    \/ \E p \in ValidParents, t \in ApiInputs : createElement([t EXCEPT !.parent = p])
    \/ performLayout
    \/ \E id \in RectIds : getElementRect(id)

Spec == Init /\ [][Next]_vars

\* Elements for the checks of the geometry: a wide horizontal container that
\* is also a stretch child, a fixed child that is also a vertical container, a
\* heavier stretch child that is also a container smaller than its borders,
\* a fixed child with an offset and a negative size, and an offset stretch child.
GeomInputs ==
    { El(Rect(0, 0, 300, 100), 1, 0, 3, "Horizontal"),
      El(Rect(0, 0, 61, 40), 0, 2, 1, "Vertical"),
      El(Rect(0, 0, 0, 0), 2, 3, 3, "Horizontal"),
      El(Rect(5, 7, -4, 9), 0, 1, 2, "Vertical"),
      El(Rect(4, 1, 30, 20), 1, 1, 0, "Vertical") }

NextGeom ==
    \/ \E p \in ValidParents, t \in GeomInputs : createElement([t EXCEPT !.parent = p])
    \/ performLayout

SpecGeom == Init /\ [][NextGeom]_vars

(* ------------------------------------------------------------------ *)
(* Vocabulary of the properties                                        *)
(* ------------------------------------------------------------------ *)

Range(s) == {s[i] : i \in 1 .. Len(s)}

RECURSIVE SumSeq(_)
SumSeq(s) == IF s = << >> THEN 0 ELSE Head(s) + SumSeq(Tail(s))

Kids(id) == m_elements[id].children
KidIdx(id) == 1 .. Len(Kids(id))
Kid(id, i) == m_elements[Kids(id)[i]]
KidRect(id, i) == rects[Kids(id)[i]]

\* The containers whose children the last call, a performLayout, laid out.
LaidOut ==
    IF lastOp = "performLayout"
    THEN {id \in DOMAIN m_elements : id \in Range(writes) /\ Kids(id) # << >>}
    ELSE {}

MainPos(id, r) == IF m_elements[id].axis = "Horizontal" THEN r.x ELSE r.y
MainLen(id, r) == IF m_elements[id].axis = "Horizontal" THEN r.width ELSE r.height
CrossLen(id, r) == IF m_elements[id].axis = "Horizontal" THEN r.height ELSE r.width

\* S, x, B, G of a laid-out container, from its computed rectangle.
ContS(id) == MainLen(id, rects[id])
ContX(id) == MainPos(id, rects[id])
ContB(id) == m_elements[id].border
ContG(id) == m_elements[id].spacing

IsFixed(id, i) == Kid(id, i).proportion = 0
IsStretch(id, i) == Kid(id, i).proportion >= 1

\* T: the proportions of the children summed, a sum of 0 counting as 1.
ContT(id) ==
    LET t == SumSeq([i \in KidIdx(id) |-> Kid(id, i).proportion])
    IN IF t = 0 THEN 1 ELSE t

\* F: the stored main-axis sizes of the fixed children summed.
ContF(id) ==
    SumSeq([i \in KidIdx(id) |-> IF IsFixed(id, i) THEN MainLen(id, Kid(id, i).bounds) ELSE 0])

\* A child's computed main-axis size before the spacing was deducted from it.
FullLen(id, i) ==
    MainLen(id, KidRect(id, i)) + (IF i < Len(Kids(id)) THEN ContG(id) ELSE 0)

\* a / b rounded toward minus infinity, and rounded toward zero (b >= 1).
Floor(a, b) == a \div b
TowardZero(a, b) == IF a % b # 0 /\ a < 0 THEN (a \div b) + 1 ELSE a \div b

AtOrigin(id, i) == Kid(id, i).bounds.x = 0 /\ Kid(id, i).bounds.y = 0

(* ------------------------------------------------------------------ *)
(* C1                                                                  *)
(* ------------------------------------------------------------------ *)

Mixed(id) == (\E i \in KidIdx(id) : IsFixed(id, i)) /\ (\E i \in KidIdx(id) : IsStretch(id, i))

\* C1 as stated: in a laid-out container that mixes fixed and stretch
\* children, a stretch child of proportion p has main-axis size
\* floor((S - 2B) / T) * p before spacing is deducted, whatever the fixed
\* siblings reserve.
C1_SpanIgnoresFixed ==
    \A id \in LaidOut : Mixed(id) =>
        \A i \in KidIdx(id) : IsStretch(id, i) =>
            FullLen(id, i) = Floor(ContS(id) - 2 * ContB(id), ContT(id)) * Kid(id, i).proportion

\* C1 amended: the span that is distributed is S - F - 2B, F being the sum of
\* the fixed children's stored main-axis sizes; a stretch child of proportion
\* p gets ((S - F - 2B) / T, truncated toward zero) * p before spacing.
C1_SpanMinusFixed ==
    \A id \in LaidOut : Mixed(id) =>
        \A i \in KidIdx(id) : IsStretch(id, i) =>
            FullLen(id, i) =
                TowardZero(ContS(id) - ContF(id) - 2 * ContB(id), ContT(id)) * Kid(id, i).proportion

C1_Witness ==
    \E id \in LaidOut : Mixed(id) /\ ContF(id) > 0 /\ ContB(id) > 0 /\ Len(Kids(id)) >= 3

(* ------------------------------------------------------------------ *)
(* C2                                                                  *)
(* ------------------------------------------------------------------ *)

\* C2 as stated: after performLayout every root element (parent = 0) has a
\* rectangle in the map, equal to its stored bounds.
C2_EveryRootHasItsBounds ==
    lastOp = "performLayout" =>
        \A id \in DOMAIN m_elements : m_elements[id].parent = 0 =>
            id \in DOMAIN rects /\ rects[id] = m_elements[id].bounds

(* ------------------------------------------------------------------ *)
(* C3                                                                  *)
(* ------------------------------------------------------------------ *)

\* C3 as stated: a getElementRect call leaves the rectangle map (keys and
\* values) and the registry as they were, and returns the rectangle the map
\* held for the id or the default rectangle.
C3_GetElementRectIsPureRead ==
    [][lastOp' = "getElementRect" =>
          /\ m_elementLayoutRects' = m_elementLayoutRects
          /\ m_elements' = m_elements
          /\ ret' \in {m_elementLayoutRects[k] : k \in DOMAIN m_elementLayoutRects} \cup {DefaultRect}]_vars

(* ------------------------------------------------------------------ *)
(* C4                                                                  *)
(* ------------------------------------------------------------------ *)

\* C4: a performLayout that directly follows a performLayout leaves the
\* rectangle map as the first left it, and no performLayout changes a stored
\* element.
C4_Idempotent ==
    [][lastOp' = "performLayout" =>
          /\ m_elements' = m_elements
          /\ (lastOp = "performLayout" => m_elementLayoutRects' = m_elementLayoutRects)]_vars

\* A layout has run over a tree of three levels while the map also holds an
\* entry the layout does not own: the state a second performLayout starts from.
C4_Witness ==
    /\ lastOp = "performLayout"
    /\ Len(writes) >= 3
    /\ \E id \in Range(writes) : m_elements[id].parent \notin {0, 1}
    /\ DOMAIN rects # Range(writes)

(* ------------------------------------------------------------------ *)
(* C5                                                                  *)
(* ------------------------------------------------------------------ *)

AllStretchAtOrigin(id) == \A i \in KidIdx(id) : IsStretch(id, i) /\ AtOrigin(id, i)

\* The share of child i when every child stretches: floor((S - 2B) / T) * p_i.
Share(id, i) == Floor(ContS(id) - 2 * ContB(id), ContT(id)) * Kid(id, i).proportion

\* C5: in a laid-out container with S - 2B >= 0 whose children all stretch
\* and are stored at (0,0), the first child starts at x + B, each later child
\* starts where the previous one started plus the previous one's full share,
\* every child but the last is stored with its share minus G and the last
\* with its full share.  The 300-wide horizontal root with border 0 and three
\* children of proportion 1 gets x = 0, 100, 200, widths 100-G, 100-G, 100
\* and heights 100.
C5_ProportionalSplit ==
    /\ \A id \in LaidOut :
          (AllStretchAtOrigin(id) /\ ContS(id) - 2 * ContB(id) >= 0) =>
              LET n == Len(Kids(id)) IN
              /\ MainPos(id, KidRect(id, 1)) = ContX(id) + ContB(id)
              /\ \A i \in 1 .. n - 1 :
                    /\ MainPos(id, KidRect(id, i + 1)) = MainPos(id, KidRect(id, i)) + Share(id, i)
                    /\ MainLen(id, KidRect(id, i)) = Share(id, i) - ContG(id)
              /\ MainLen(id, KidRect(id, n)) = Share(id, n)
    /\ (/\ 1 \in LaidOut
        /\ m_elements[1].bounds = Rect(0, 0, 300, 100)
        /\ m_elements[1].axis = "Horizontal"
        /\ m_elements[1].border = 0
        /\ Len(Kids(1)) = 3
        /\ \A i \in 1 .. 3 : Kid(1, i).proportion = 1 /\ AtOrigin(1, i))
       => LET g == ContG(1) IN
          /\ <<KidRect(1, 1).x, KidRect(1, 2).x, KidRect(1, 3).x>> = <<0, 100, 200>>
          /\ <<KidRect(1, 1).width, KidRect(1, 2).width, KidRect(1, 3).width>>
                = <<100 - g, 100 - g, 100>>
          /\ \A i \in 1 .. 3 : KidRect(1, i).height = 100

\* The concrete scenario has been laid out, with a spacing that shows.
C5_Witness ==
    /\ 1 \in LaidOut
    /\ m_elements[1].bounds = Rect(0, 0, 300, 100)
    /\ m_elements[1].axis = "Horizontal"
    /\ m_elements[1].border = 0
    /\ m_elements[1].spacing > 0
    /\ Len(Kids(1)) = 3
    /\ \A i \in 1 .. 3 : Kid(1, i).proportion = 1 /\ AtOrigin(1, i)

(* ------------------------------------------------------------------ *)
(* C6                                                                  *)
(* ------------------------------------------------------------------ *)

\* C6: every child of a laid-out container, fixed or stretch, at any place in
\* the sequence, has cross-axis size = the container's computed cross-axis
\* size - 2 * border (height in a Horizontal container, width in a Vertical one).
C6_CrossAxisForced ==
    \A id \in LaidOut : \A i \in KidIdx(id) :
        CrossLen(id, KidRect(id, i)) = CrossLen(id, rects[id]) - 2 * ContB(id)

\* A Vertical and a Horizontal container are laid out in one pass, the
\* Vertical one with a border and a later, fixed child whose stored
\* cross-axis size is not the forced one.
C6_Witness ==
    /\ \E id \in LaidOut :
          /\ m_elements[id].axis = "Vertical"
          /\ ContB(id) > 0
          /\ \E i \in KidIdx(id) :
                /\ i >= 2
                /\ IsFixed(id, i)
                /\ Kid(id, i).bounds.width # KidRect(id, i).width
    /\ \E id \in LaidOut :
          /\ m_elements[id].axis = "Horizontal"
          /\ \E i \in KidIdx(id) : IsStretch(id, i) /\ Kid(id, i).bounds.height # KidRect(id, i).height

(* ------------------------------------------------------------------ *)
(* C7                                                                  *)
(* ------------------------------------------------------------------ *)

\* C7 as stated: in every laid-out container the computed main-axis
\* positions of consecutive children never decrease, whatever the children's
\* stored bounds and proportions and the container's border and spacing.
C7_OrderAlways ==
    \A id \in LaidOut : \A i \in 1 .. Len(Kids(id)) - 1 :
        MainPos(id, KidRect(id, i)) <= MainPos(id, KidRect(id, i + 1))

\* The stored main-axis positions of the children never decrease, no fixed
\* child has a negative stored main-axis size, and S - F - 2B >= 0.
OrderPremise(id) ==
    /\ \A i \in 1 .. Len(Kids(id)) - 1 :
          MainPos(id, Kid(id, i).bounds) <= MainPos(id, Kid(id, i + 1).bounds)
    /\ \A i \in KidIdx(id) : IsFixed(id, i) => MainLen(id, Kid(id, i).bounds) >= 0
    /\ ContS(id) - ContF(id) - 2 * ContB(id) >= 0

\* C7 amended: the positions never decrease in a laid-out container whose
\* children's stored main-axis positions never decrease, whose fixed children
\* have non-negative stored main-axis sizes and where S - F - 2B >= 0.
C7_OrderUnderPremise ==
    \A id \in LaidOut : OrderPremise(id) =>
        \A i \in 1 .. Len(Kids(id)) - 1 :
            MainPos(id, KidRect(id, i)) <= MainPos(id, KidRect(id, i + 1))

C7_Witness ==
    \E id \in LaidOut :
        /\ OrderPremise(id)
        /\ Len(Kids(id)) >= 3
        /\ \E i \in KidIdx(id) : MainPos(id, Kid(id, i).bounds) # 0
        /\ \E i \in 1 .. Len(Kids(id)) - 1 :
              MainPos(id, KidRect(id, i)) < MainPos(id, KidRect(id, i + 1))

(* ------------------------------------------------------------------ *)
(* C8                                                                  *)
(* ------------------------------------------------------------------ *)

\* The parent/children relation is a forest: a parent is the sentinel or an
\* older element, a children sequence lists, in creation order and without
\* repetition, exactly the elements whose parent field names the element.
Forest ==
    /\ DOMAIN m_elements = 1 .. m_globalID - 1
    /\ \A id \in DOMAIN m_elements :
          /\ m_elements[id].parent \in 0 .. id - 1
          /\ \A i \in 1 .. Len(Kids(id)) - 1 : Kids(id)[i] < Kids(id)[i + 1]
          /\ Range(Kids(id)) = {k \in DOMAIN m_elements : m_elements[k].parent = id}

\* The elements of the tree of element 1: those whose chain of parents reaches 1.
RECURSIVE UnderOne(_, _)
UnderOne(id, fuel) ==
    IF id = 1 THEN TRUE
    ELSE IF id = 0 \/ fuel = 0 \/ id \notin DOMAIN m_elements THEN FALSE
    ELSE UnderOne(m_elements[id].parent, fuel - 1)

TreeOfOne == {id \in DOMAIN m_elements : UnderOne(id, m_globalID)}

\* C8: the registry built by createElement calls with valid parents is a
\* forest, and a performLayout pass over it ends having assigned the
\* rectangle of each element of the tree of element 1 exactly once and of no
\* other element, a child's rectangle after its parent's.
C8_ForestAndSinglePass ==
    /\ Forest
    /\ lastOp = "performLayout" =>
          /\ Range(writes) = TreeOfOne
          /\ Len(writes) = Cardinality(TreeOfOne)
          /\ Range(writes) \subseteq DOMAIN rects
          /\ \A i \in 1 .. Len(writes) :
                m_elements[writes[i]].parent # 0 =>
                    \E j \in 1 .. i - 1 : writes[j] = m_elements[writes[i]].parent

\* A pass has run over a tree of three levels, beside a second root that is
\* not part of it.
C8_Witness ==
    /\ lastOp = "performLayout"
    /\ Len(writes) >= 3
    /\ \E id \in Range(writes) : m_elements[id].parent \notin {0, 1}
    /\ \E id \in DOMAIN m_elements : id # 1 /\ m_elements[id].parent = 0

(* ------------------------------------------------------------------ *)
(* C9                                                                  *)
(* ------------------------------------------------------------------ *)

\* C9 as stated: in a laid-out container with A = S - 2B < 0 every stretch
\* child of proportion p has main-axis size floor(A / T) * p before spacing,
\* rounded toward minus infinity, and that size is not positive.
C9_NegativeSpaceFloors ==
    \A id \in LaidOut : ContS(id) - 2 * ContB(id) < 0 =>
        \A i \in KidIdx(id) : IsStretch(id, i) =>
            /\ FullLen(id, i) = Floor(ContS(id) - 2 * ContB(id), ContT(id)) * Kid(id, i).proportion
            /\ FullLen(id, i) <= 0

\* The space left of a container: A = S - F - 2B.
ContA(id) == ContS(id) - ContF(id) - 2 * ContB(id)

\* C9 amended: in a laid-out container with A = S - F - 2B < 0 (F the fixed
\* children's stored main-axis sizes summed, 0 without fixed children) every
\* stretch child of proportion p has main-axis size (A / T rounded toward
\* zero) * p before spacing, which is not positive; the divisor T is >= 1.
C9_NegativeSpaceTruncates ==
    \A id \in LaidOut : ContA(id) < 0 =>
        /\ ContT(id) >= 1
        /\ \A i \in KidIdx(id) : IsStretch(id, i) =>
              /\ FullLen(id, i) = TowardZero(ContA(id), ContT(id)) * Kid(id, i).proportion
              /\ FullLen(id, i) <= 0

\* A negative space that T does not divide has been shared out, in a
\* container without fixed children.
C9_Witness ==
    \E id \in LaidOut :
        /\ ContS(id) - 2 * ContB(id) < 0
        /\ ContF(id) = 0
        /\ ContA(id) % ContT(id) # 0
        /\ \E i \in KidIdx(id) : IsStretch(id, i) /\ FullLen(id, i) < 0

(* ------------------------------------------------------------------ *)
(* C10                                                                 *)
(* ------------------------------------------------------------------ *)

NoOverflowPremise(id) ==
    /\ \A i \in KidIdx(id) : AtOrigin(id, i)
    /\ \A i \in KidIdx(id) : IsFixed(id, i) => MainLen(id, Kid(id, i).bounds) >= 0
    /\ ContS(id) - 2 * ContB(id) - ContF(id) >= 0

\* The arrangement stretch(p), fixed(W), stretch(p).
Centering(id) ==
    /\ Len(Kids(id)) = 3
    /\ IsStretch(id, 1) /\ IsFixed(id, 2) /\ IsStretch(id, 3)
    /\ Kid(id, 1).proportion = Kid(id, 3).proportion

\* C10: in a laid-out container whose children are stored at (0,0), whose
\* fixed children have non-negative main-axis sizes summing to F and where
\* S - 2B - F >= 0, the children's main-axis sizes before spacing sum to at
\* most S - 2B and the last child ends at or before x + S - B; in the
\* arrangement stretch(p), fixed(W), stretch(p) both stretch children get the
\* same size and the space after the fixed child exceeds the space before it
\* by the remainder of (S - 2B - W) / 2p only.
C10_NoOverflow ==
    \A id \in LaidOut : NoOverflowPremise(id) =>
        LET n == Len(Kids(id))
            inner == ContS(id) - 2 * ContB(id)
        IN /\ SumSeq([i \in KidIdx(id) |-> FullLen(id, i)]) <= inner
           /\ MainPos(id, KidRect(id, n)) + MainLen(id, KidRect(id, n))
                 <= ContX(id) + ContS(id) - ContB(id)
           /\ Centering(id) =>
                 LET w == MainLen(id, Kid(id, 2).bounds)
                     before == MainPos(id, KidRect(id, 2)) - (ContX(id) + ContB(id))
                     after == (ContX(id) + ContS(id) - ContB(id)) - (MainPos(id, KidRect(id, 2)) + w)
                 IN /\ FullLen(id, 1) = FullLen(id, 3)
                    /\ after - before = (inner - w) % (2 * Kid(id, 1).proportion)

\* The centring arrangement has been laid out, leaving a remainder.
C10_Witness ==
    \E id \in LaidOut :
        /\ NoOverflowPremise(id)
        /\ Centering(id)
        /\ MainLen(id, Kid(id, 2).bounds) > 0
        /\ (ContS(id) - 2 * ContB(id) - ContF(id)) % ContT(id) # 0

====
